---- MODULE Spec2Model ----
(***************************************************************************)
(* Model of the chain-of-custody log (utils/chain_of_custody.py), of the   *)
(* behavioural analysers (utils/anomaly_detection.py) and of the actions   *)
(* of the Streamlit front end (Source/frontend/app.py) that touch them.    *)
(*                                                                         *)
(* Values.  A Python / SQLite value is a record [ty, v]: ty is its type    *)
(* ("null", "str", "int", "real", "list", "dict") and v the sequence of    *)
(* tokens of its text.  json.dumps is a sequence of tokens as well, and    *)
(* SHA-256 / HMAC-SHA-256 are modelled as injective functions of the       *)
(* serialisation they are fed (no collisions), so that two digests are     *)
(* equal exactly when the hashed texts are.                                *)
(***************************************************************************)
EXTENDS Integers, Sequences, FiniteSets, TLC

\* ------------------------------------------------------------------ bounds
MaxEntries == 3        \* log_action calls in one behaviour
NumProcs == 2          \* threads / sessions that may call log_action at once

Procs == 1..NumProcs

VARIABLES
    db_exists,      \* os.path.exists(DB_PATH)
    custody_log,    \* rows of table custody_log, in id order
    seq,            \* sqlite_sequence: the last AUTOINCREMENT id handed out
    clock,          \* datetime.now(), in ticks
    pc,             \* per caller: position inside log_action
    frame,          \* per caller: the locals of its log_action call
    returned,       \* per caller: what its last log_action call returned
    verdict,        \* result of the last verify_chain_integrity() call
    tamper,         \* what was done to the stored rows behind the API's back
    fetched,        \* result of the last get_custody_log call
    messages,       \* the message batch handed to the analysers
    temporal,       \* result of the last detect_temporal_anomalies call
    contacts,       \* result of the last analyze_contact_patterns call
    asked,          \* arguments and wall clock of the last call of each analyser
    session         \* st.session_state of the front end

logVars == <<db_exists, custody_log, seq, clock, pc, frame, returned, verdict, tamper,
            fetched>>
anaVars == <<messages, temporal, contacts, asked>>
appVars == <<session>>

\* ------------------------------------------------------------ Python values
None == [ty |-> "null", v |-> <<>>]
PyStr(s) == [ty |-> "str", v |-> <<s>>]
Text(toks) == [ty |-> "str", v |-> toks]
PyInt(d) == [ty |-> "int", v |-> <<d>>]
PyFloat(i, f) == [ty |-> "real", v |-> <<i, ".", f>>]
PyList(toks) == [ty |-> "list", v |-> toks]
PyDict(toks) == [ty |-> "dict", v |-> toks]      \* k1, v1, k2, v2, ... in insertion order

Numerals == {"0", "1", "2", "3", "5", "7"}

\* Python truthiness (`if x:`)
Truthy(x) ==
    CASE x.ty = "null" -> FALSE
      [] x.ty = "int"  -> x.v # <<"0">>
      [] x.ty = "real" -> x.v # <<"0", ".", "0">>
      [] OTHER         -> x.v # <<>>

\* Keys of a details mapping, in the order sort_keys=True puts them.
KeyOrder == <<"case", "file", "size">>

RECURSIVE PairsOf(_, _)
PairsOf(toks, k) ==
    IF toks = <<>> THEN <<>>
    ELSE IF Len(toks) >= 2 /\ toks[1] = k THEN <<toks[1], toks[2]>>
    ELSE IF Len(toks) >= 2 THEN PairsOf(SubSeq(toks, 3, Len(toks)), k)
    ELSE <<>>

\* dict items ordered by key (json.dumps(..., sort_keys=True))
SortKeys(toks) ==
    PairsOf(toks, KeyOrder[1]) \o PairsOf(toks, KeyOrder[2]) \o PairsOf(toks, KeyOrder[3])

\* json.dumps(x) / json.dumps(x, sort_keys=True) of one value, as tokens
json_dumps(x, sort_keys) ==
    CASE x.ty = "null" -> <<"null">>
      [] x.ty = "str"  -> <<"\"">> \o x.v \o <<"\"">>
      [] x.ty = "int"  -> x.v
      [] x.ty = "real" -> x.v
      [] x.ty = "list" -> <<"[">> \o x.v \o <<"]">>
      [] x.ty = "dict" -> <<"{">> \o (IF sort_keys THEN SortKeys(x.v) ELSE x.v) \o <<"}">>

RECURSIVE NoSpace(_)
NoSpace(toks) ==
    IF toks = <<>> THEN <<>>
    ELSE IF toks[1] = " " THEN NoSpace(Tail(toks))
    ELSE <<toks[1]>> \o NoSpace(Tail(toks))

RECURSIVE WellFormedItems(_)
WellFormedItems(toks) ==
    \/ toks = <<>>
    \/ /\ Len(toks) >= 2
       /\ toks[1] \in {KeyOrder[i] : i \in 1..Len(KeyOrder)}
       /\ toks[2] \notin {"{", "}", "[", "]"}
       /\ WellFormedItems(SubSeq(toks, 3, Len(toks)))

\* json.loads(text): [ok |-> FALSE] stands for JSONDecodeError / TypeError
json_loads(x) ==
    LET t == NoSpace(x.v)
        n == Len(t)
    IN  IF x.ty # "str" \/ n = 0 THEN [ok |-> FALSE, val |-> None]
        ELSE IF n >= 2 /\ t[1] = "{" /\ t[n] = "}" /\ WellFormedItems(SubSeq(t, 2, n - 1))
             THEN [ok |-> TRUE, val |-> PyDict(SubSeq(t, 2, n - 1))]
        ELSE IF n >= 2 /\ t[1] = "[" /\ t[n] = "]"
                 /\ \A i \in 2..(n - 1) : t[i] \in Numerals
             THEN [ok |-> TRUE, val |-> PyList(SubSeq(t, 2, n - 1))]
        ELSE IF t = <<"null">> THEN [ok |-> TRUE, val |-> None]
        ELSE IF n = 1 /\ t[1] \in Numerals THEN [ok |-> TRUE, val |-> PyInt(t[1])]
        ELSE [ok |-> FALSE, val |-> None]

\* --------------------------------------------------- SQLite column affinity
\* TEXT column: numbers are stored as their text.
ToText(x) == IF x.ty \in {"int", "real"} THEN Text(x.v) ELSE x

\* INTEGER column: integral reals and numeric text become integers.
ToInteger(x) ==
    CASE x.ty = "real" /\ Len(x.v) = 3 /\ x.v[3] = "0" -> PyInt(x.v[1])
      [] x.ty = "str" /\ Len(x.v) = 1 /\ x.v[1] \in Numerals -> PyInt(x.v[1])
      [] OTHER -> x

\* REAL column: integers and numeric text become floating point.
ToReal(x) ==
    CASE x.ty = "int" -> PyFloat(x.v[1], "0")
      [] x.ty = "str" /\ Len(x.v) = 1 /\ x.v[1] \in Numerals -> PyFloat(x.v[1], "0")
      [] x.ty = "str" /\ Len(x.v) = 3 /\ x.v[2] = "." /\ x.v[1] \in Numerals
            /\ x.v[3] \in Numerals -> [ty |-> "real", v |-> x.v]
      [] OTHER -> x

\* sqlite3 binds None, int, float and str; anything else raises on execute().
Bindable(x) == x.ty \in {"null", "str", "int", "real"}

\* ------------------------------------------------------- hashing and signing
\* The key verify_chain_integrity checks signatures under, and the default of
\* log_action's server_key parameter: b'aie_secret_key'.
DefaultKey == "aie_secret_key"

\* Line 117 without sort_keys=True inside the details mapping.
entry_json_unsorted(entry_data, previous_hash) ==
       <<"action">> \o json_dumps(entry_data.action, TRUE)
    \o <<"actor">> \o json_dumps(entry_data.actor, TRUE)
    \o <<"confidence">> \o json_dumps(entry_data.confidence, TRUE)
    \o <<"details">> \o json_dumps(entry_data.details, FALSE)
    \o <<"line_numbers">> \o json_dumps(entry_data.line_numbers, TRUE)
    \o (IF Truthy(previous_hash)
        THEN <<"previous_hash">> \o json_dumps(previous_hash, TRUE) ELSE <<>>)
    \o <<"query">> \o json_dumps(entry_data.query, TRUE)
    \o <<"results_count">> \o json_dumps(entry_data.results_count, TRUE)
    \o <<"source_file">> \o json_dumps(entry_data.source_file, TRUE)
    \o <<"timestamp">> \o json_dumps(entry_data.timestamp, TRUE)

\* json.dumps(entry_data, sort_keys=True): the nine fields of entry_data, and
\* "previous_hash" when the caller put it in, in key order.
entry_json(entry_data, previous_hash) ==
       <<"action">> \o json_dumps(entry_data.action, TRUE)
    \o <<"actor">> \o json_dumps(entry_data.actor, TRUE)
    \o <<"confidence">> \o json_dumps(entry_data.confidence, TRUE)
    \o <<"details">> \o json_dumps(entry_data.details, TRUE)
    \o <<"line_numbers">> \o json_dumps(entry_data.line_numbers, TRUE)
    \o (IF Truthy(previous_hash)
        THEN <<"previous_hash">> \o json_dumps(previous_hash, TRUE) ELSE <<>>)
    \o <<"query">> \o json_dumps(entry_data.query, TRUE)
    \o <<"results_count">> \o json_dumps(entry_data.results_count, TRUE)
    \o <<"source_file">> \o json_dumps(entry_data.source_file, TRUE)
    \o <<"timestamp">> \o json_dumps(entry_data.timestamp, TRUE)

\* hashlib.sha256(text.encode()).hexdigest()
sha256(text) == Text(<<"sha256(">> \o text \o <<")">>)

\* hmac.new(key, text.encode(), hashlib.sha256).hexdigest()
hmac_sha256(key, text) == Text(<<"hmac(", key>> \o text \o <<")">>)

\* ------------------------------------------------------------ the log table
\* SELECT hash_value FROM custody_log ORDER BY id DESC LIMIT 1
get_last_hash_first(rows) == IF rows = <<>> THEN None ELSE rows[1].hash_value

get_last_hash(rows) == IF rows = <<>> THEN None ELSE rows[Len(rows)].hash_value

\* The arguments of one log_action call.  server_key "default" stands for a
\* call that passes no key and so gets the parameter's default.
Args(action, line_numbers, results_count, confidence, details, server_key) ==
    [action |-> PyStr(action), actor |-> PyStr("investigator"), source_file |-> None,
     line_numbers |-> line_numbers, query |-> None, results_count |-> results_count,
     confidence |-> confidence, details |-> details, server_key |-> server_key]

\* Calls the model makes: each is a call the interface accepts.
CallArgs ==
    { Args("file_upload", None, None, None, None, "default"),
      Args("search_query", PyStr("1-5"), PyInt("3"), PyFloat("0", "5"),
           PyDict(<<"file", "\"a.json\"", "case", "7">>), "default"),
      Args("search_query", PyList(<<"1", "2">>), None, None, None, "default"),
      Args("export_pdf", None, None, None, PyDict(<<>>), "default"),
      Args("export_pdf", None, None, PyInt("1"), None, "default"),
      Args("file_upload", None, None, None, None, "operator_key") }

\* Calls with the same content: the details mapping built in another order,
\* one value of it changed, another signing key.
DigestArgs ==
    { Args("search_query", PyStr("1-5"), PyInt("3"), PyFloat("0", "5"),
           PyDict(<<"file", "\"a.json\"", "case", "7">>), "default"),
      Args("search_query", PyStr("1-5"), PyInt("3"), PyFloat("0", "5"),
           PyDict(<<"case", "7", "file", "\"a.json\"">>), "default"),
      Args("search_query", PyStr("1-5"), PyInt("3"), PyFloat("0", "5"),
           PyDict(<<"case", "5", "file", "\"a.json\"">>), "default"),
      Args("search_query", PyStr("1-5"), PyInt("3"), PyFloat("0", "5"),
           PyDict(<<"case", "7", "file", "\"a.json\"">>), "operator_key") }

KeyOf(args) == IF args.server_key = "default" THEN DefaultKey ELSE args.server_key

\* entry_data as log_action builds it (lines 97-107)
entry_data_of(args, timestamp) ==
    [timestamp |-> timestamp, action |-> args.action, actor |-> args.actor,
     source_file |-> args.source_file, line_numbers |-> args.line_numbers,
     query |-> args.query, results_count |-> args.results_count,
     confidence |-> args.confidence, details |-> args.details]

\* The row the INSERT of log_action stores (lines 127-137), after the column
\* affinities of the table (lines 26-42) were applied; id is the AUTOINCREMENT.
new_row(id, args, timestamp, previous_hash) ==
    LET text == entry_json(entry_data_of(args, timestamp), previous_hash)
    IN  [id |-> id,
         timestamp |-> ToText(timestamp),
         action |-> ToText(args.action),
         actor |-> ToText(args.actor),
         source_file |-> ToText(args.source_file),
         line_numbers |-> ToText(IF args.line_numbers.ty \in {"list", "dict"}
                                 THEN Text(json_dumps(args.line_numbers, FALSE))
                                 ELSE args.line_numbers),
         query |-> ToText(args.query),
         results_count |-> ToInteger(args.results_count),
         confidence |-> ToReal(args.confidence),
         hash_value |-> sha256(text),
         previous_hash |-> previous_hash,
         signature |-> hmac_sha256(KeyOf(args), text),
         details |-> IF Truthy(args.details)
                     THEN Text(json_dumps(args.details, FALSE)) ELSE None,
         \* not columns: which key parameter the writing call was given, and
         \* the entry_data it hashed
         key_given |-> args.server_key,
         hashed |-> entry_data_of(args, timestamp)]

\* ------------------------------------------------- verify_chain_integrity()
NotRun == [ran |-> FALSE, raised |-> FALSE, valid |-> FALSE, reason |-> "", at |-> 0]
Result(valid, reason, at) ==
    [ran |-> TRUE, raised |-> FALSE, valid |-> valid, reason |-> reason, at |-> at]
Raised(reason, at) ==
    [ran |-> TRUE, raised |-> TRUE, valid |-> FALSE, reason |-> reason, at |-> at]

\* Lines 210-220: the entry_data the verifier rebuilds from a stored row; ok
\* is FALSE when json.loads raises on the details column.
entry_data_from(entry) ==
    LET loaded == IF Truthy(entry.details) THEN json_loads(entry.details)
                  ELSE [ok |-> TRUE, val |-> None]
    IN  [ok |-> loaded.ok,
         val |-> [timestamp |-> entry.timestamp, action |-> entry.action,
                  actor |-> entry.actor, source_file |-> entry.source_file,
                  line_numbers |-> entry.line_numbers, query |-> entry.query,
                  results_count |-> entry.results_count,
                  confidence |-> entry.confidence, details |-> loaded.val]]

\* The loop of lines 208-243 from entry i on, previous_hash being the local.
RECURSIVE verify_loop(_, _, _)
verify_loop(entries, i, previous_hash) ==
    IF i > Len(entries) THEN Result(TRUE, "Chain integrity verified", 0)
    ELSE
      LET entry == entries[i]
          rebuilt == entry_data_from(entry)
          text == entry_json(rebuilt.val, previous_hash)
      IN  IF ~rebuilt.ok THEN Raised("JSONDecodeError", entry.id)
          ELSE IF Truthy(previous_hash) /\ entry.previous_hash # previous_hash
               THEN Result(FALSE, "Previous hash mismatch", entry.id)
          ELSE IF sha256(text) # entry.hash_value
               THEN Result(FALSE, "Hash mismatch", entry.id)
          ELSE IF hmac_sha256(DefaultKey, text) # entry.signature
               THEN Result(FALSE, "Signature verification failed", entry.id)
          ELSE verify_loop(entries, i + 1, entry.hash_value)

\* What a verifier that checks nothing answers.
verify_unchecked(exists, rows) == Result(TRUE, "Chain integrity verified", 0)

\* A verifier that takes a chain without entries for a broken one.
verify_empty_invalid(exists, rows) ==
    IF ~exists \/ rows = <<>> THEN Result(FALSE, "No entries", 0)
    ELSE verify_loop(rows, 1, None)

verify_chain_integrity(exists, rows) ==
    IF ~exists THEN Result(TRUE, "Chain is empty", 0)
    ELSE IF rows = <<>> THEN Result(TRUE, "Chain is empty", 0)
    ELSE verify_loop(rows, 1, None)

\* ------------------------------------------------------------------ helpers
Remove(sq, i) == SubSeq(sq, 1, i - 1) \o SubSeq(sq, i + 1, Len(sq))

RECURSIVE SortById(_)
SortById(rows) ==
    IF rows = <<>> THEN <<>>
    ELSE LET m == CHOOSE i \in 1..Len(rows) : \A j \in 1..Len(rows) : rows[i].id <= rows[j].id
         IN  <<rows[m]>> \o SortById(Remove(rows, m))

Ids(rows) == {rows[i].id : i \in 1..Len(rows)}

InFlight == {q \in Procs : pc[q] # "idle"}

NoFrame == <<>>

\* What get_custody_log returned (raised: json.loads failed on a row).
NotFetched == [ran |-> FALSE, raised |-> FALSE, limit |-> 0, rows |-> <<>>]
Fetched(limit, rows) == [ran |-> TRUE, raised |-> FALSE, limit |-> limit, rows |-> rows]
FetchRaised(limit) == [ran |-> TRUE, raised |-> TRUE, limit |-> limit, rows |-> <<>>]
NoTamper == [kind |-> "none", id |-> 0, col |-> "", succ |-> 0, clean |-> FALSE, len |-> 0]

\* -------------------------------------------------------------- log_action
\* datetime.now() of a new call: later than that of every finished call; a call
\* that overlaps another may read the very instant the other read.
NowValues == IF InFlight = {} THEN {clock + 1} ELSE {clock, clock + 1}

\* Lines 90-121: create the store if it is missing, take the timestamp, read
\* the latest hash (get_last_hash, its own connection).  Nothing is held
\* between this read and the INSERT.
LogRead(p, args) ==
    /\ pc[p] = "idle"
    /\ seq + Cardinality(InFlight) < MaxEntries
    /\ db_exists' = TRUE
    /\ \E t \in NowValues :
          /\ clock' = t
          /\ frame' = [frame EXCEPT ![p] =
                          [args |-> args, timestamp |-> PyStr(ToString(t)),
                           previous_hash |-> get_last_hash(custody_log)]]
    /\ pc' = [pc EXCEPT ![p] = "insert"]
    /\ UNCHANGED <<custody_log, seq, returned, verdict, tamper, fetched, anaVars, appVars>>

\* Lines 123-142 with INSERT OR REPLACE under the id of the newest row.
LogInsertReplaces(p) ==
    /\ pc[p] = "insert"
    /\ LET n == Len(custody_log)
           row == new_row(IF n = 0 THEN 1 ELSE custody_log[n].id, frame[p].args,
                          frame[p].timestamp, frame[p].previous_hash)
       IN  /\ custody_log' = IF n = 0 THEN <<row>> ELSE [custody_log EXCEPT ![n] = row]
           /\ returned' = [returned EXCEPT ![p] = row.hash_value]
    /\ seq' = seq + 1
    /\ pc' = [pc EXCEPT ![p] = "idle"]
    /\ frame' = [frame EXCEPT ![p] = NoFrame]
    /\ verdict' = NotRun
    /\ fetched' = NotFetched
    /\ UNCHANGED <<db_exists, clock, tamper, anaVars, appVars>>

\* Lines 123-142: INSERT, commit, return hash_value.
LogInsert(p) ==
    /\ pc[p] = "insert"
    /\ LET row == new_row(seq + 1, frame[p].args, frame[p].timestamp,
                          frame[p].previous_hash)
       IN  /\ custody_log' = Append(custody_log, row)
           /\ returned' = [returned EXCEPT ![p] = row.hash_value]
    /\ seq' = seq + 1
    /\ pc' = [pc EXCEPT ![p] = "idle"]
    /\ frame' = [frame EXCEPT ![p] = NoFrame]
    /\ verdict' = NotRun
    /\ fetched' = NotFetched
    /\ UNCHANGED <<db_exists, clock, tamper, anaVars, appVars>>

\* What log_action leaves its caller with when it raises.
Raises(name) == [ty |-> "raise", v |-> <<name>>]

\* Lines 123-139 when the store cannot be written, with the error raised only
\* after the commit went through.
LogInsertFailsLate(p) ==
    /\ pc[p] = "insert"
    /\ clock <= MaxEntries
    /\ custody_log' = Append(custody_log, new_row(seq + 1, frame[p].args, frame[p].timestamp,
                                                  frame[p].previous_hash))
    /\ seq' = seq + 1
    /\ returned' = [returned EXCEPT ![p] = Raises("OperationalError")]
    /\ pc' = [pc EXCEPT ![p] = "idle"]
    /\ frame' = [frame EXCEPT ![p] = NoFrame]
    /\ verdict' = NotRun
    /\ fetched' = NotFetched
    /\ UNCHANGED <<db_exists, clock, tamper, anaVars, appVars>>

\* Lines 123-139 when the store cannot be written (disk full, database locked,
\* read-only file): execute() or commit() raises sqlite3.OperationalError,
\* nothing of log_action catches it, and the transaction that was never
\* committed is rolled back with the connection.  At most MaxEntries + 1
\* calls of a behaviour fail.
LogInsertFails(p) ==
    /\ pc[p] = "insert"
    /\ clock <= MaxEntries
    /\ returned' = [returned EXCEPT ![p] = Raises("OperationalError")]
    /\ pc' = [pc EXCEPT ![p] = "idle"]
    /\ frame' = [frame EXCEPT ![p] = NoFrame]
    /\ UNCHANGED <<db_exists, custody_log, seq, clock, verdict, tamper, fetched,
                   anaVars, appVars>>

\* ---------------------------------------------------------- get_custody_log
DefaultLimit == 100

\* Lines 170-178: the JSON columns of a fetched row, parsed
parsed_row(row) ==
    [row EXCEPT
       !.details = IF Truthy(row.details) THEN json_loads(row.details).val ELSE row.details,
       !.line_numbers = IF Truthy(row.line_numbers) /\ row.line_numbers.ty = "str"
                           /\ json_loads(row.line_numbers).ok
                        THEN json_loads(row.line_numbers).val ELSE row.line_numbers]

\* SELECT * FROM custody_log ORDER BY id ASC LIMIT ?
select_oldest(rows, limit) ==
    LET n == IF limit < Len(rows) THEN limit ELSE Len(rows)
    IN  [k \in 1..n |-> rows[k]]

\* SELECT * FROM custody_log ORDER BY id DESC LIMIT ?  (lines 162-164), for a
\* limit that is not negative
select_latest(rows, limit) ==
    LET n == IF limit < Len(rows) THEN limit ELSE Len(rows)
    IN  [k \in 1..n |-> rows[Len(rows) + 1 - k]]

\* get_custody_log(limit), lines 154-180
get_custody_log(exists, rows, limit) ==
    IF ~exists THEN Fetched(limit, <<>>)
    ELSE LET results == select_latest(rows, limit)
         IN  IF \E k \in 1..Len(results) :
                    Truthy(results[k].details) /\ ~json_loads(results[k].details).ok
             THEN FetchRaised(limit)
             ELSE Fetched(limit, [k \in 1..Len(results) |-> parsed_row(results[k])])

\* A call of get_custody_log; it creates the store when there is none.
GetCustodyLog(limit) ==
    /\ ~fetched.ran
    /\ fetched' = get_custody_log(db_exists, custody_log, limit)
    /\ db_exists' = TRUE
    /\ UNCHANGED <<custody_log, seq, clock, pc, frame, returned, verdict, tamper,
                   anaVars, appVars>>

\* A call that starts while no other call is in progress.
SeqRead(p, args) == InFlight = {} /\ LogRead(p, args)

\* verify_chain_integrity(): one SELECT, then the loop over its rows.
Verify ==
    /\ ~verdict.ran
    /\ verdict' = verify_chain_integrity(db_exists, custody_log)
    /\ UNCHANGED <<db_exists, custody_log, seq, clock, pc, frame, returned, tamper, fetched,
                   anaVars, appVars>>

\* anomaly_detection.py, lines 77-79: the verify_chain_integrity(log_entries)
\* that module defines and exports in its __all__; it returns a bare bool.
placeholder_verify_chain_integrity(log_entries) == TRUE

\* A call of that entry point on the rows of the store.
VerifyPlaceholder ==
    /\ ~verdict.ran
    /\ verdict' = Result(placeholder_verify_chain_integrity(custody_log), "", 0)
    /\ UNCHANGED <<db_exists, custody_log, seq, clock, pc, frame, returned, tamper, fetched,
                   anaVars, appVars>>

\* ------------------------------------------- edits made behind the API's back
Columns == {"id", "timestamp", "action", "actor", "source_file", "line_numbers",
            "query", "results_count", "confidence", "hash_value", "previous_hash",
            "signature", "details"}

\* Values an edit may put in a column of a row (a different value each time).
MutationValues(col, row) ==
    CASE col = "id" -> (1..(seq + 1)) \ {row.id}
      [] col \in {"timestamp", "action", "actor"} -> {PyStr("edited")}
      [] col \in {"source_file", "line_numbers", "query"} -> {PyStr("edited"), None}
      [] col = "results_count" -> {PyInt("7"), None}
      [] col = "confidence" -> {PyFloat("0", "5"), None}
      [] col \in {"hash_value", "signature"} -> {PyStr("forged")}
      [] col = "previous_hash" -> {PyStr("forged"), None}
      [] col = "details" ->
            {None, Text(<<>>), Text(<<"{", "\"case\"">>), Text(<<"{", "case", "7", "}">>)}
            \cup (IF row.details.ty = "str" THEN {Text(<<" ">> \o row.details.v)} ELSE {})

MutateField(i, col, val) ==
    /\ tamper.kind = "none"
    /\ InFlight = {}
    /\ i \in 1..Len(custody_log)
    /\ val \in MutationValues(col, custody_log[i])
    /\ custody_log[i][col] # val
    /\ col = "id" => val \notin Ids(custody_log)
    /\ custody_log' = SortById([custody_log EXCEPT ![i] = [@ EXCEPT ![col] = val]])
    /\ tamper' = [kind |-> "mutate",
                  id |-> IF col = "id" THEN val ELSE custody_log[i].id,
                  col |-> col, succ |-> 0,
                  clean |-> verify_chain_integrity(db_exists, custody_log).valid,
                  len |-> Len(custody_log)]
    /\ verdict' = NotRun
    /\ UNCHANGED <<db_exists, seq, clock, pc, frame, returned, fetched, anaVars, appVars>>

DeleteEntry(i) ==
    /\ tamper.kind = "none"
    /\ InFlight = {}
    /\ i \in 1..Len(custody_log)
    /\ custody_log' = Remove(custody_log, i)
    /\ tamper' = [kind |-> "delete", id |-> custody_log[i].id, col |-> "",
                  succ |-> IF i < Len(custody_log) THEN custody_log[i + 1].id ELSE 0,
                  clean |-> verify_chain_integrity(db_exists, custody_log).valid,
                  len |-> Len(custody_log)]
    /\ verdict' = NotRun
    /\ UNCHANGED <<db_exists, seq, clock, pc, frame, returned, fetched, anaVars, appVars>>

\* ============================================== utils/anomaly_detection.py
MaxMsgs == 3              \* messages in one analysed batch

DefaultThreshold == 50    \* threshold_messages_per_hour
DefaultWindowHours == 24  \* new_contact_window_hours
OddHourFirst == 1
OddHourLast == 4
SampleSize == 5
DropMinimum == 3

\* Time is counted in hours: t = 24 * day + hour of the wall clock a value
\* shows; an aware datetime also carries its UTC offset, in hours.
DateTime(t, aware, off) == [t |-> t, aware |-> aware, off |-> off]

\* What the 'timestamp' key of a message holds:
\*   "iso"     an ISO-8601 string without offset      -> naive datetime
\*   "isoz"    an ISO-8601 string with Z or an offset -> aware datetime
\*   "epoch"   a number                               -> datetime.fromtimestamp
\*   "nan"     a number fromtimestamp rejects (nan, inf, out of range)
\*   "garbage" a string no parser accepts
\*   "missing" no timestamp (None, or the key is absent)
Stamp(kind, t, off) == [kind |-> kind, t |-> t, off |-> off]

\* A message; datetime is <<>> when the key is absent, <<dt>> when present.
\* A missing sender or recipient reads as '' (msg.get(key, '')).
Msg(sender, recipient, timestamp) ==
    [sender |-> sender, recipient |-> recipient, timestamp |-> timestamp,
     datetime |-> <<>>]

\* Lines 102-116 / 181-195: the datetime a timestamp resolves to; ok is FALSE
\* when the attempt raises and the message is skipped by `except Exception`.
resolve_timestamp(ts, now) ==
    CASE ts.kind = "iso"   -> [ok |-> TRUE, dt |-> DateTime(ts.t, FALSE, 0)]
      [] ts.kind = "isoz"  -> [ok |-> TRUE, dt |-> DateTime(ts.t, TRUE, ts.off)]
      [] ts.kind = "epoch" -> [ok |-> TRUE, dt |-> DateTime(ts.t, FALSE, 0)]
      [] ts.kind = "nan"   -> [ok |-> FALSE, dt |-> DateTime(0, FALSE, 0)]
      [] OTHER             -> [ok |-> TRUE, dt |-> DateTime(now, FALSE, 0)]

\* Lines 99-124 (keep = FALSE) and 177-204 (keep = TRUE: a 'datetime' key the
\* message already has is kept): copies of the messages, each with 'datetime'.
\* A list built element by element, as one value.
Listed(f) == f \o <<>>

processed_messages(msgs, now, keep) ==
    LET Resolved(msg) == IF keep /\ msg.datetime # <<>>
                         THEN [ok |-> TRUE, dt |-> msg.datetime[1]]
                         ELSE resolve_timestamp(msg.timestamp, now)
        Appended(msg) == Resolved(msg).ok
        kept == SelectSeq(msgs, Appended)
    IN  Listed([i \in 1..Len(kept) |-> [kept[i] EXCEPT !.datetime = <<Resolved(kept[i]).dt>>]])

\* The instant a datetime compares by: aware ones by UTC.
Instant(pm) == pm.datetime[1].t - pm.datetime[1].off
Hour(pm) == pm.datetime[1].t % 24         \* datetime.hour
HourKey(pm) == pm.datetime[1].t           \* strftime('%Y-%m-%d %H')
DayKey(pm) == pm.datetime[1].t \div 24    \* strftime('%Y-%m-%d')

\* Comparing a naive with an aware datetime raises TypeError; a sort of two
\* or more values compares every value with some other.
MixedAwareness(pms) ==
    \E i, j \in 1..Len(pms) : pms[i].datetime[1].aware # pms[j].datetime[1].aware

\* The batch left in the order it came in.
unsorted_messages(pms) == pms

\* sorted(processed_messages, key=lambda x: x['datetime']): stable, so a
\* message lands after the earlier ones and after the equal ones before it.
sorted_messages(pms) ==
    LET n == Len(pms)
        at == Listed([i \in 1..n |-> Instant(pms[i])])
        place == Listed([i \in 1..n |->
                    1 + Cardinality({j \in 1..n : at[j] < at[i] \/ (at[j] = at[i] /\ j < i)})])
    IN  Listed([k \in 1..n |-> pms[CHOOSE i \in 1..n : place[i] = k]])

\* Keys in order of first appearance (insertion order of a dict).
FirstSeen(keys) ==
    LET listed == Listed(keys)
        marked == [i \in 1..Len(listed) |->
                      [key |-> listed[i],
                       first |-> \A j \in 1..(i - 1) : listed[j] # listed[i]]]
        IsFirst(x) == x.first
        firsts == SelectSeq(marked, IsFirst)
    IN  Listed([i \in 1..Len(firsts) |-> firsts[i].key])

Min(a, b) == IF a <= b THEN a ELSE b

\* Line 147 with `>` for `>=`: a bucket must exceed the threshold.
RECURSIVE message_spikes_strict(_, _, _)
message_spikes_strict(sorted, hours, threshold) ==
    IF hours = <<>> THEN <<>>
    ELSE LET hour == Head(hours)
             InHour(pm) == HourKey(pm) = hour
             hour_messages == SelectSeq(sorted, InHour)
         IN  (IF Len(hour_messages) > threshold
              THEN <<[hour |-> hour, count |-> Len(hour_messages),
                      messages |-> SubSeq(hour_messages, 1,
                                          Min(SampleSize, Len(hour_messages)))]>>
              ELSE <<>>)
             \o message_spikes_strict(sorted, Tail(hours), threshold)

\* Line 135, wrongly excluding the bounds
is_odd_hour_exclusive(pm) == Hour(pm) > OddHourFirst /\ Hour(pm) < OddHourLast

\* Line 135
is_odd_hour(pm) == Hour(pm) >= OddHourFirst /\ Hour(pm) <= OddHourLast

NoTemporal ==
    [ran |-> FALSE, raised |-> FALSE, odd_hour_messages |-> <<>>, message_spikes |-> <<>>]
TemporalResult(odd, spikes) ==
    [ran |-> TRUE, raised |-> FALSE, odd_hour_messages |-> odd, message_spikes |-> spikes]
TemporalRaised ==
    [ran |-> TRUE, raised |-> TRUE, odd_hour_messages |-> <<>>, message_spikes |-> <<>>]

\* Lines 138-152: the buckets in insertion order, those at or over the threshold
RECURSIVE message_spikes(_, _, _)
message_spikes(sorted, hours, threshold) ==
    IF hours = <<>> THEN <<>>
    ELSE LET hour == Head(hours)
             InHour(pm) == HourKey(pm) = hour
             hour_messages == SelectSeq(sorted, InHour)
         IN  (IF Len(hour_messages) >= threshold
              THEN <<[hour |-> hour, count |-> Len(hour_messages),
                      messages |-> SubSeq(hour_messages, 1,
                                          Min(SampleSize, Len(hour_messages)))]>>
              ELSE <<>>)
             \o message_spikes(sorted, Tail(hours), threshold)

\* detect_temporal_anomalies(messages, threshold_messages_per_hour), called
\* while datetime.now() reads `now`
detect_temporal_anomalies(msgs, threshold, now) ==
    LET processed == processed_messages(msgs, now, FALSE)
    IN  IF msgs = <<>> \/ processed = <<>> THEN TemporalResult(<<>>, <<>>)
        ELSE IF MixedAwareness(processed) THEN TemporalRaised
        ELSE LET sorted == sorted_messages(processed)
                 hours == FirstSeen([i \in 1..Len(sorted) |-> HourKey(sorted[i])])
             IN  TemporalResult(SelectSeq(sorted, is_odd_hour),
                                message_spikes(sorted, hours, threshold))

NoContacts ==
    [ran |-> FALSE, raised |-> FALSE, new_contacts |-> <<>>, contact_drops |-> <<>>,
     contact_graph |-> {}]
ContactResult(new, drops, graph) ==
    [ran |-> TRUE, raised |-> FALSE, new_contacts |-> new, contact_drops |-> drops,
     contact_graph |-> graph]
ContactsRaised ==
    [ran |-> TRUE, raised |-> TRUE, new_contacts |-> <<>>, contact_drops |-> <<>>,
     contact_graph |-> {}]

\* Line 225 testing the sender alone.
HasSender(pm) == pm.sender # ""

\* Lines 222-226: the messages the loop does not skip
HasPair(pm) == pm.sender # "" /\ pm.recipient # ""
PairOf(pm) == <<pm.sender, pm.recipient>>

\* Lines 228-233 keyed by the sender alone: every message of a sender counts
\* for each of its recipients.
pair_count_of_sender(linked, pair) ==
    Cardinality({i \in 1..Len(linked) : PairOf(linked[i])[1] = pair[1]})

\* len(contact_graph[sender][recipient])
pair_count(linked, pair) ==
    Cardinality({i \in 1..Len(linked) : PairOf(linked[i]) = pair})

\* first_contact_time[pair]: the datetime of the first message of the pair
first_contact(linked, pair) ==
    LET i == CHOOSE i \in 1..Len(linked) :
                 /\ PairOf(linked[i]) = pair
                 /\ \A j \in 1..(i - 1) : PairOf(linked[j]) # pair
    IN  linked[i]

\* daily_contacts[day][pair]
daily_count(linked, day, pair) ==
    Cardinality({i \in 1..Len(linked) : PairOf(linked[i]) = pair /\ DayKey(linked[i]) = day})

Max(S) == CHOOSE x \in S : \A y \in S : y <= x

\* Line 249 with `>` for `>=`: a pair first seen exactly at the threshold is old.
RECURSIVE new_contacts_strict(_, _, _)
new_contacts_strict(linked, pairs, new_contact_threshold) ==
    IF pairs = <<>> THEN <<>>
    ELSE LET pair == Head(pairs)
             first == first_contact(linked, pair)
         IN  (IF Instant(first) > new_contact_threshold
              THEN <<[sender |-> pair[1], recipient |-> pair[2],
                      first_contact_time |-> first.datetime[1],
                      message_count |-> pair_count(linked, pair)]>>
              ELSE <<>>)
             \o new_contacts_strict(linked, Tail(pairs), new_contact_threshold)

\* Lines 243-258
RECURSIVE new_contacts(_, _, _)
new_contacts(linked, pairs, new_contact_threshold) ==
    IF pairs = <<>> THEN <<>>
    ELSE LET pair == Head(pairs)
             first == first_contact(linked, pair)
         IN  (IF Instant(first) >= new_contact_threshold
              THEN <<[sender |-> pair[1], recipient |-> pair[2],
                      first_contact_time |-> first.datetime[1],
                      message_count |-> pair_count(linked, pair)]>>
              ELSE <<>>)
             \o new_contacts(linked, Tail(pairs), new_contact_threshold)

\* Line 270 with `>=` for `>`: three messages yesterday already make a drop.
RECURSIVE contact_drops_from_three(_, _, _, _)
contact_drops_from_three(linked, pairs, yesterday, today) ==
    IF pairs = <<>> THEN <<>>
    ELSE LET pair == Head(pairs)
             count == daily_count(linked, yesterday, pair)
         IN  (IF count >= DropMinimum /\ daily_count(linked, today, pair) = 0
              THEN <<[sender |-> pair[1], recipient |-> pair[2],
                      last_active |-> yesterday, previous_count |-> count]>>
              ELSE <<>>)
             \o contact_drops_from_three(linked, Tail(pairs), yesterday, today)

\* Lines 269-277: pairs of `yesterday`, in the order they were first seen then
RECURSIVE contact_drops(_, _, _, _)
contact_drops(linked, pairs, yesterday, today) ==
    IF pairs = <<>> THEN <<>>
    ELSE LET pair == Head(pairs)
             count == daily_count(linked, yesterday, pair)
         IN  (IF count > DropMinimum /\ daily_count(linked, today, pair) = 0
              THEN <<[sender |-> pair[1], recipient |-> pair[2],
                      last_active |-> yesterday, previous_count |-> count]>>
              ELSE <<>>)
             \o contact_drops(linked, Tail(pairs), yesterday, today)

\* The analyser without lines 173-174, 206-207 and 243: max() of no message
\* raises ValueError.
analyze_contact_patterns_unguarded(msgs, window, now) ==
    LET processed == processed_messages(msgs, now, TRUE)
    IN  IF msgs = <<>> \/ processed = <<>> THEN ContactsRaised
        ELSE IF MixedAwareness(processed) THEN ContactsRaised
        ELSE
          LET sorted == sorted_messages(processed)
              linked == SelectSeq(sorted, HasPair)
              pairs == FirstSeen([i \in 1..Len(linked) |-> PairOf(linked[i])])
              latest_time == Max({Instant(sorted[i]) : i \in 1..Len(sorted)})
              days == {DayKey(linked[i]) : i \in 1..Len(linked)}
              today == Max(days)
              yesterday == Max(days \ {today})
              InYesterday(pm) == DayKey(pm) = yesterday
              ypairs == LET y == SelectSeq(linked, InYesterday)
                        IN  FirstSeen([i \in 1..Len(y) |-> PairOf(y[i])])
          IN  ContactResult(
                  new_contacts(linked, pairs, latest_time - window),
                  IF Cardinality(days) >= 2
                  THEN contact_drops(linked, ypairs, yesterday, today) ELSE <<>>,
                  {[sender |-> pairs[i][1], recipient |-> pairs[i][2],
                    count |-> pair_count(linked, pairs[i])] : i \in 1..Len(pairs)})

\* analyze_contact_patterns(messages, new_contact_window_hours), called while
\* datetime.now() reads `now`
analyze_contact_patterns(msgs, window, now) ==
    LET processed == processed_messages(msgs, now, TRUE)
    IN  IF msgs = <<>> \/ processed = <<>> THEN ContactResult(<<>>, <<>>, {})
        ELSE IF MixedAwareness(processed) THEN ContactsRaised
        ELSE
          LET sorted == sorted_messages(processed)
              linked == SelectSeq(sorted, HasPair)
              pairs == FirstSeen([i \in 1..Len(linked) |-> PairOf(linked[i])])
              latest_time == Max({Instant(sorted[i]) : i \in 1..Len(sorted)})
              days == {DayKey(linked[i]) : i \in 1..Len(linked)}
              today == Max(days)
              yesterday == Max(days \ {today})
              InYesterday(pm) == DayKey(pm) = yesterday
              ypairs == LET y == SelectSeq(linked, InYesterday)
                        IN  FirstSeen([i \in 1..Len(y) |-> PairOf(y[i])])
          IN  ContactResult(
                  new_contacts(linked, pairs, latest_time - window),
                  IF Cardinality(days) >= 2
                  THEN contact_drops(linked, ypairs, yesterday, today) ELSE <<>>,
                  {[sender |-> pairs[i][1], recipient |-> pairs[i][2],
                    count |-> pair_count(linked, pairs[i])] : i \in 1..Len(pairs)})

\* ------------------------------------------------------ the analysed batches
MsgUniverse ==
    { Msg("alice", "bob", Stamp("iso", 0, 0)),
      Msg("alice", "bob", Stamp("iso", 1, 0)),
      Msg("bob", "alice", Stamp("iso", 2, 0)),
      Msg("alice", "bob", Stamp("iso", 4, 0)),
      Msg("alice", "", Stamp("iso", 5, 0)),
      Msg("alice", "bob", Stamp("iso", 23, 0)),
      Msg("alice", "carol", Stamp("iso", 27, 0)),
      Msg("alice", "bob", Stamp("isoz", 4, 0)),
      Msg("bob", "alice", Stamp("epoch", 25, 0)),
      Msg("alice", "bob", Stamp("nan", 0, 0)),
      Msg("alice", "dave", Stamp("garbage", 0, 0)),
      Msg("bob", "erin", Stamp("missing", 0, 0)) }

Batches == UNION {[1..n -> MsgUniverse] : n \in 0..MaxMsgs}

\* Batches with one busy hour: a few messages, then n messages of one hour,
\* n around the default threshold.
MaxTail == 2              \* messages of a busy batch outside its bulk

BulkUniverse ==
    { Msg("alice", "bob", Stamp("iso", 3, 0)),
      Msg("bob", "alice", Stamp("isoz", 34, 0)) }

\* The last one reads 10:00 of day 1 an hour west of UTC: the hour bucket of
\* the second bulk, an hour after it.
TailUniverse ==
    { Msg("alice", "carol", Stamp("iso", 3, 0)),
      Msg("bob", "erin", Stamp("garbage", 0, 0)),
      Msg("bob", "erin", Stamp("isoz", 34, 0 - 1)) }

BulkSizes == (DefaultThreshold - 1)..(DefaultThreshold + 1)

BusyBatches ==
    { tail \o [i \in 1..n |-> m] :
        tail \in UNION {[1..k -> TailUniverse] : k \in 0..MaxTail},
        n \in BulkSizes, m \in BulkUniverse }

\* Batches of a conversation over three days: alice and bob on day 0 and on
\* day 1, exactly 24 hours apart; bob's message an hour earlier; alice and
\* carol on day 1; a message without recipient on day 2.
MaxContactMsgs == 5       \* messages in one batch of the conversation

ContactUniverse ==
    { Msg("alice", "bob", Stamp("iso", 10, 0)),
      Msg("alice", "bob", Stamp("iso", 34, 0)),
      Msg("bob", "alice", Stamp("iso", 9, 0)),
      Msg("alice", "carol", Stamp("iso", 35, 0)),
      Msg("alice", "", Stamp("iso", 58, 0)) }

ContactBatches == UNION {[1..n -> ContactUniverse] : n \in 0..MaxContactMsgs}

\* Readings of datetime.now() during an analysis: 03:00 and 12:00 of day 2.
WallClock == {51, 60}

\* No analyser was called yet.
NoAsk == [threshold |-> 0, tnow |-> 0, window |-> 0, cnow |-> 0]

\* Lines 99-124 and 177-204 with `processed_msg = msg` in place of
\* `processed_msg = msg.copy()`: the 'datetime' key lands in the caller's dict.
messages_after_in_place(msgs, now, keep) ==
    LET Resolved(msg) == resolve_timestamp(msg.timestamp, now)
        Written(msg) == IF keep /\ msg.datetime # <<>> THEN msg
                        ELSE IF Resolved(msg).ok
                             THEN [msg EXCEPT !.datetime = <<Resolved(msg).dt>>]
                             ELSE msg
    IN  Listed([i \in 1..Len(msgs) |-> Written(msgs[i])])

\* The caller's list after an analyser returned or raised.  Lines 99-130 and
\* 177-210 read `messages` and each msg; every write goes to the copy made
\* by msg.copy() (lines 119-120, 198-201) or to the new lists
\* processed_messages and sorted(...).
messages_after(msgs, now, keep) == msgs

RunTemporal(threshold, now) ==
    /\ temporal' = detect_temporal_anomalies(messages, threshold, now)
    /\ messages' = messages_after(messages, now, FALSE)
    /\ asked' = [asked EXCEPT !.threshold = threshold, !.tnow = now]
    /\ UNCHANGED <<contacts, logVars, appVars>>

RunContacts(window, now) ==
    /\ contacts' = analyze_contact_patterns(messages, window, now)
    /\ messages' = messages_after(messages, now, TRUE)
    /\ asked' = [asked EXCEPT !.window = window, !.cnow = now]
    /\ UNCHANGED <<temporal, logVars, appVars>>

\* ================================================== Source/frontend/app.py
\* st.session_state, and what the page last showed (st.success / st.error).
NoSession ==
    [data_loaded |-> FALSE, uploaded_data |-> <<>>, temporal_anomalies |-> NoTemporal,
     contact_patterns |-> NoContacts, analysis_results |-> <<>>, results |-> <<>>,
     shown |-> ""]

\* Messages of an uploaded UFDR file: sender, recipient and content present.
UploadUniverse ==
    { Msg("alice", "bob", Stamp("iso", 2, 0)),
      Msg("bob", "alice", Stamp("isoz", 28, 5)),
      Msg("alice", "carol", Stamp("garbage", 0, 0)),
      Msg("bob", "erin", Stamp("missing", 0, 0)) }

Uploads == UNION {[1..n -> UploadUniverse] : n \in 1..MaxMsgs}

\* data/sample_ufdr.json
SampleData == <<Msg("alice", "bob", Stamp("isoz", 3, 0)), Msg("bob", "alice", Stamp("isoz", 30, 0))>>

\* Lines 113-118: a timestamp isoparse accepts is rewritten as
\* dt.strftime("%Y-%m-%dT%H:%M:%SZ"): its wall-clock reading, marked Z.
normalize_timestamp(msg) ==
    IF msg.timestamp.kind \in {"iso", "isoz"}
    THEN [msg EXCEPT !.timestamp = Stamp("isoz", msg.timestamp.t, 0)]
    ELSE msg

\* Lines 201-227: the messages whose timestamp isoparse accepts, each with the
\* rewritten timestamp and the parsed datetime.
RECURSIVE formatted_messages(_)
formatted_messages(msgs) ==
    IF msgs = <<>> THEN <<>>
    ELSE LET msg == Head(msgs)
         IN  (IF msg.timestamp.kind \in {"iso", "isoz"}
              THEN <<[sender |-> msg.sender, recipient |-> msg.recipient,
                      timestamp |-> Stamp("isoz", msg.timestamp.t, 0),
                      datetime |-> <<DateTime(msg.timestamp.t, msg.timestamp.kind = "isoz",
                                              msg.timestamp.off)>>]>>
              ELSE <<>>)
             \o formatted_messages(Tail(msgs))

\* Lines 70-157.  ingested = FALSE: create_documents / ingest_to_chroma raised
\* and the except branch reported it.
UploadFile(data, ingested) ==
    /\ session.uploaded_data = <<>>     \* the model follows one data set per session
    /\ session' = IF ingested
                  THEN [session EXCEPT
                          !.uploaded_data = [i \in 1..Len(data) |-> normalize_timestamp(data[i])],
                          !.data_loaded = TRUE,
                          !.shown = "UFDR data processed successfully"]
                  ELSE [session EXCEPT
                          !.uploaded_data = [i \in 1..Len(data) |-> normalize_timestamp(data[i])],
                          !.shown = "Error processing the file"]
    /\ UNCHANGED <<logVars, anaVars>>

\* Lines 160-180
LoadSampleData ==
    /\ session.uploaded_data = <<>>
    /\ session' = [session EXCEPT !.uploaded_data = SampleData, !.data_loaded = TRUE,
                                  !.shown = "Sample UFDR loaded"]
    /\ UNCHANGED <<logVars, anaVars>>

\* Lines 187-250: "Run Behavioral Analysis"
RunBehavioralAnalysis(now) ==
    /\ session.data_loaded
    /\ LET formatted == formatted_messages(session.uploaded_data)
           t == detect_temporal_anomalies(formatted, DefaultThreshold, now)
           c == analyze_contact_patterns(formatted, DefaultWindowHours, now)
       IN  session' =
             IF session.uploaded_data = <<>>
             THEN [session EXCEPT !.shown = "No messages found to analyze"]
             ELSE IF t.raised THEN [session EXCEPT !.shown = "TypeError"]
             ELSE IF c.raised
                  THEN [session EXCEPT !.temporal_anomalies = t, !.shown = "TypeError"]
             ELSE [session EXCEPT !.temporal_anomalies = t, !.contact_patterns = c,
                                  !.shown = "Analysis complete"]
    /\ UNCHANGED <<logVars, anaVars>>

\* Lines 396-459: "Run Automated Forensic Analysis"; hits is what the searches
\* (hybrid_search, top_k = 3 each) returned after deduplication.
RunForensicAnalysis(hits) ==
    /\ session.data_loaded
    /\ session' = [session EXCEPT
                      !.analysis_results = hits,
                      !.shown = IF hits # <<>> THEN "Found items of interest"
                                ELSE "No specific forensic indicators"]
    /\ UNCHANGED <<logVars, anaVars>>

\* Lines 511-513: "Export Analysis to PDF"
ExportAnalysisPdf ==
    /\ session.data_loaded
    /\ session.analysis_results # <<>>
    /\ session' = [session EXCEPT !.shown = "PDF saved"]
    /\ UNCHANGED <<logVars, anaVars>>

\* Lines 562-614: a query; hits is what hybrid_search returned.
SearchQuery(hits) ==
    /\ session.data_loaded
    /\ session' = [session EXCEPT !.results = hits,
                                  !.shown = IF hits # <<>> THEN "Found matches"
                                            ELSE "No matches found"]
    /\ UNCHANGED <<logVars, anaVars>>

\* Lines 667-698: "Export Search Results to PDF".  generate_pdf_report takes
\* no `anomalies` / `ai_suggestions` parameter (pdf_generator.py line 10), so
\* the call raises TypeError and the except branch reports it.
ExportSearchPdf ==
    /\ session.data_loaded
    /\ session.results # <<>>
    /\ session' = [session EXCEPT !.shown = "Error generating PDF"]
    /\ UNCHANGED <<logVars, anaVars>>

\* What a search over the uploaded messages can return: a prefix of them.
Hits == {SubSeq(session.uploaded_data, 1, n) : n \in 0..Len(session.uploaded_data)}

\* ----------------------------------------------------------- specifications
vars == <<logVars, anaVars, appVars>>

InitLog ==
    /\ db_exists = FALSE
    /\ custody_log = <<>>
    /\ seq = 0
    /\ clock = 0
    /\ pc = [p \in Procs |-> "idle"]
    /\ frame = [p \in Procs |-> NoFrame]
    /\ returned = [p \in Procs |-> None]
    /\ verdict = NotRun
    /\ tamper = NoTamper
    /\ fetched = NotFetched

InitAna ==
    /\ messages = <<>>
    /\ temporal = NoTemporal
    /\ contacts = NoContacts
    /\ asked = NoAsk

InitApp == session = NoSession

Init == InitLog /\ InitAna /\ InitApp

\* Callers that do not wait for each other: log_action takes no lock.
Next ==
    \/ \E p \in Procs, args \in CallArgs : LogRead(p, args)
    \/ \E p \in Procs : LogInsert(p)
    \/ Verify

Spec == Init /\ [][Next]_vars

\* Two callers whose calls overlap, with the same or nearly the same content.
DigestCallers == {1, 2}

NextDigest ==
    \/ \E p \in DigestCallers, args \in DigestArgs : LogRead(p, args)
    \/ \E p \in DigestCallers : LogInsert(p)

SpecDigest == Init /\ [][NextDigest]_vars

\* One caller, one call after another.
NextSeq ==
    \/ \E args \in CallArgs : SeqRead(1, args)
    \/ LogInsert(1)
    \/ Verify

SpecSeq == Init /\ [][NextSeq]_vars

\* One caller whose writes may fail, and a reader of the log.
NextStore ==
    \/ \E args \in CallArgs : SeqRead(1, args)
    \/ LogInsert(1)
    \/ LogInsertFails(1)
    \/ \E limit \in (0..(MaxEntries + 1)) \cup {DefaultLimit} : GetCustodyLog(limit)

SpecStore == Init /\ [][NextStore]_vars

\* Every operation of the log, one call after another.
NextOps ==
    \/ \E args \in CallArgs : SeqRead(1, args)
    \/ LogInsert(1)
    \/ LogInsertFails(1)
    \/ GetCustodyLog(DefaultLimit)
    \/ Verify

SpecOps == Init /\ [][NextOps]_vars

\* One caller, then one edit of the stored rows, then verification.
NextTamper ==
    \/ \E args \in CallArgs : tamper.kind = "none" /\ SeqRead(1, args)
    \/ LogInsert(1)
    \/ \E i \in 1..MaxEntries, col \in Columns :
          \E val \in MutationValues(col, IF i <= Len(custody_log) THEN custody_log[i]
                                         ELSE [id |-> 0, details |-> None]) :
              MutateField(i, col, val)
    \/ \E i \in 1..MaxEntries : DeleteEntry(i)
    \/ Verify

SpecTamper == Init /\ [][NextTamper]_vars

\* One caller, one edit of the stored rows, then either exported verifier.
NextExported ==
    \/ NextTamper
    \/ VerifyPlaceholder

SpecExported == Init /\ [][NextExported]_vars

\* The analysers, applied to every batch.
InitAnalysis ==
    /\ InitLog /\ InitApp
    /\ messages \in Batches
    /\ temporal = NoTemporal
    /\ contacts = NoContacts
    /\ asked = NoAsk

NextAnalysis ==
    \/ \E threshold \in {2, DefaultThreshold}, now \in WallClock : RunTemporal(threshold, now)
    \/ \E now \in WallClock : RunContacts(DefaultWindowHours, now)

SpecAnalysis == InitAnalysis /\ [][NextAnalysis]_vars

\* The temporal analyser, applied to batches with a busy hour.
InitSpikes ==
    /\ InitLog /\ InitApp
    /\ messages \in BusyBatches
    /\ temporal = NoTemporal
    /\ contacts = NoContacts
    /\ asked = NoAsk

NextSpikes ==
    \E threshold \in {2, DefaultThreshold - 1, DefaultThreshold}, now \in WallClock :
        RunTemporal(threshold, now)

SpecSpikes == InitSpikes /\ [][NextSpikes]_vars

\* The analysers on one batch, between the appends of one caller.
MaxPure == 2              \* messages of such a batch

PureUniverse ==
    { Msg("alice", "bob", Stamp("iso", 3, 0)),
      Msg("bob", "alice", Stamp("isoz", 34, 0)),
      Msg("carol", "", Stamp("garbage", 0, 0)) }

PureBatches == UNION {[1..n -> PureUniverse] : n \in 0..MaxPure}

InitPure ==
    /\ InitLog /\ InitApp
    /\ messages \in PureBatches
    /\ temporal = NoTemporal
    /\ contacts = NoContacts
    /\ asked = NoAsk

NextPure ==
    \/ RunTemporal(DefaultThreshold, Max(WallClock))
    \/ RunContacts(DefaultWindowHours, Max(WallClock))
    \/ \E args \in DigestArgs : SeqRead(1, args)
    \/ LogInsert(1)

SpecPure == InitPure /\ [][NextPure]_vars

\* The contact analyser, applied to the batches of a conversation.
InitContacts ==
    /\ InitLog /\ InitApp
    /\ messages \in ContactBatches
    /\ temporal = NoTemporal
    /\ contacts = NoContacts
    /\ asked = NoAsk

NextContacts ==
    \E window \in {1, DefaultWindowHours} : RunContacts(window, Max(WallClock))

SpecContacts == InitContacts /\ [][NextContacts]_vars

\* The front end: every button of the page, in any order.
NextApp ==
    \/ \E data \in Uploads, ingested \in BOOLEAN : UploadFile(data, ingested)
    \/ LoadSampleData
    \/ \E now \in WallClock : RunBehavioralAnalysis(now)
    \/ \E hits \in Hits : RunForensicAnalysis(hits)
    \/ ExportAnalysisPdf
    \/ \E hits \in Hits : SearchQuery(hits)
    \/ ExportSearchPdf

SpecApp == Init /\ [][NextApp]_vars

\* =================================================================== claims

\* C1: under any interleaving of the read-latest-hash and insert steps of
\* concurrent appends, no two stored entries carry the same previous_hash
\* (the entries form a single linear chain).  Checked under Spec.
C1_NoSiblings ==
    \A i, j \in 1..Len(custody_log) :
        i < j => custody_log[i].previous_hash # custody_log[j].previous_hash

\* C2: after any sequence of appends executed one after another on an empty
\* log, with any accepted arguments, verify_chain_integrity() reports the chain
\* as valid.  Checked under SpecSeq.
C2_SequentialAppendsVerify ==
    verdict.ran => (~verdict.raised /\ verdict.valid)

\* C3: mutating any single field of any stored entry makes
\* verify_chain_integrity() report failure at exactly that entry's sequence
\* number.  Stated for logs that verified before the edit.  Checked under
\* SpecTamper.
C3_MutationDetectedAtEntry ==
    (verdict.ran /\ tamper.kind = "mutate" /\ tamper.clean)
        => (~verdict.raised /\ ~verdict.valid /\ verdict.at = tamper.id)

\* C4 (as claimed): deleting any stored entry (first, middle or last) from a
\* log of two or more appended entries makes verify_chain_integrity() report
\* failure at the point of the deletion.  Stated for logs that verified before
\* the deletion.  Checked under SpecTamper.
C4_AnyDeletionDetected ==
    (verdict.ran /\ tamper.kind = "delete" /\ tamper.len >= 2 /\ tamper.clean)
        => (~verdict.raised /\ ~verdict.valid
            /\ (tamper.succ # 0 => verdict.at = tamper.succ))

\* C4 (amended): deleting an entry other than the last from a log of two or
\* more entries appended one at a time makes verify_chain_integrity() report
\* failure no later than the entry that followed the deleted one, and exactly
\* there when the log verified before the deletion; deleting the last entry is
\* not detected: a log that verified before the deletion still verifies.
C4_InnerDeletionDetected ==
    (verdict.ran /\ tamper.kind = "delete" /\ tamper.len >= 2)
        => IF tamper.succ # 0
           THEN /\ ~verdict.raised /\ ~verdict.valid
                /\ verdict.at >= 1 /\ verdict.at <= tamper.succ
                /\ tamper.clean => verdict.at = tamper.succ
           ELSE tamper.clean => (~verdict.raised /\ verdict.valid)

C4_Witness ==
    /\ verdict.ran /\ tamper.kind = "delete" /\ tamper.len >= 3 /\ tamper.clean
    /\ tamper.succ # 0 /\ tamper.id # 1
    /\ verdict.reason = "Previous hash mismatch" /\ verdict.at = tamper.succ

\* C5: when appends run one at a time, every stored entry except the first
\* has previous_hash equal to the hash_value of the entry with the next-lower
\* sequence number, and the first entry has an empty previous_hash.  Checked
\* under SpecSeq.
C5_ChainContinuity ==
    \A i \in 1..Len(custody_log) :
        IF i = 1 THEN custody_log[i].previous_hash = None
        ELSE /\ custody_log[i].previous_hash = custody_log[i - 1].hash_value
             /\ custody_log[i].id > custody_log[i - 1].id

C5_Witness ==
    /\ Len(custody_log) >= 3
    /\ custody_log[3].previous_hash = custody_log[2].hash_value
    /\ custody_log[2].hash_value # custody_log[1].hash_value

\* C6: verify_chain_integrity() never fails with an exception, whatever the
\* stored rows hold; it returns a (valid, reason) result.  Checked under
\* SpecTamper.
C6_VerifyNeverRaises ==
    verdict.ran => ~verdict.raised

\* C7: an append made without an explicitly supplied signing key writes no
\* entry; the log never contains an entry signed under the built-in default
\* key.  Checked under SpecSeq.
C7_NoDefaultKeyEntry ==
    \A i \in 1..Len(custody_log) :
        /\ custody_log[i].key_given # "default"
        /\ custody_log[i].signature.v[2] # DefaultKey

\* A timestamp that resolves to no instant: unparseable or missing.
Unresolvable(m) == m.timestamp.kind \in {"garbage", "missing", "nan"}
Resolvable(m) == m.timestamp.kind \in {"iso", "isoz", "epoch"}

SameMessage(a, b) ==
    a.sender = b.sender /\ a.recipient = b.recipient /\ a.timestamp = b.timestamp

Occurrences(sq, m) == Cardinality({i \in 1..Len(sq) : SameMessage(sq[i], m)})

ResolvableWithPair(sender, recipient) ==
    {k \in 1..Len(messages) :
        /\ Resolvable(messages[k])
        /\ messages[k].sender = sender /\ messages[k].recipient = recipient}

\* C9: a message whose timestamp is unparseable or missing is excluded from
\* the results of both analysers: it is no odd-hour message, counts toward no
\* hour bucket, and contributes to no edge, new contact or contact drop.
\* Checked under SpecAnalysis.
C9_UnresolvableExcluded ==
    /\ (temporal.ran /\ ~temporal.raised) =>
          /\ \A i \in 1..Len(temporal.odd_hour_messages) :
                ~Unresolvable(temporal.odd_hour_messages[i])
          /\ \A i \in 1..Len(temporal.message_spikes) :
                LET spike == temporal.message_spikes[i]
                IN  /\ \A j \in 1..Len(spike.messages) : ~Unresolvable(spike.messages[j])
                    /\ spike.count <= Cardinality({k \in 1..Len(messages) :
                                                      Resolvable(messages[k])})
    /\ (contacts.ran /\ ~contacts.raised) =>
          /\ \A e \in contacts.contact_graph :
                e.count = Cardinality(ResolvableWithPair(e.sender, e.recipient))
          /\ \A i \in 1..Len(contacts.new_contacts) :
                ResolvableWithPair(contacts.new_contacts[i].sender,
                                   contacts.new_contacts[i].recipient) # {}
          /\ \A i \in 1..Len(contacts.contact_drops) :
                ResolvableWithPair(contacts.contact_drops[i].sender,
                                   contacts.contact_drops[i].recipient) # {}

\* C10: a message is classified odd-hour if and only if the hour of day of
\* its timestamp lies in 1..4 inclusive, and odd_hour_messages lists the
\* classified messages in chronological order.  (A message whose timestamp
\* names no hour is classified by the hour it was given instead.)  Checked
\* under SpecAnalysis.
C10_OddHourClassification ==
    (temporal.ran /\ ~temporal.raised) =>
        LET odd == temporal.odd_hour_messages
        IN  /\ \A k \in 1..Len(messages) :
                  Resolvable(messages[k]) =>
                      Occurrences(odd, messages[k]) =
                          IF messages[k].timestamp.t % 24 \in 1..4
                          THEN Occurrences(messages, messages[k]) ELSE 0
            /\ \A i \in 1..Len(odd) : odd[i].datetime[1].t % 24 \in 1..4
            /\ \A i, j \in 1..Len(odd) :
                  i < j => odd[i].datetime[1].t - odd[i].datetime[1].off
                               <= odd[j].datetime[1].t - odd[j].datetime[1].off

C10_Witness ==
    /\ temporal.ran /\ ~temporal.raised
    /\ Len(messages) = 3
    /\ messages[1].timestamp = Stamp("iso", 4, 0)
    /\ messages[2].timestamp = Stamp("iso", 5, 0)
    /\ messages[3].timestamp = Stamp("iso", 1, 0)
    /\ Len(temporal.odd_hour_messages) = 2
    /\ temporal.odd_hour_messages[1].timestamp = Stamp("iso", 1, 0)
    /\ temporal.odd_hour_messages[2].timestamp = Stamp("iso", 4, 0)

Logged(action) == \E i \in 1..Len(custody_log) : custody_log[i].action = PyStr(action)

\* C8: every action of the application that changes evidence state (upload
\* or load of a data file, search, behavioural analysis, PDF export) appends
\* an audit entry, and is not marked complete (data_loaded set, success shown)
\* unless that entry was recorded.  Checked under SpecApp.
C8_ActionsAudited ==
    /\ session.data_loaded => Logged("file_upload")
    /\ session.temporal_anomalies.ran => custody_log # <<>>
    /\ session.results # <<>> => Logged("search_query")
    /\ session.shown = "PDF saved" => Logged("export_pdf")

\* The calendar-hour bucket of message i of the batch, as the call of
\* detect_temporal_anomalies at `asked.tnow` resolved it; -1 for a message
\* the call skipped.
BucketOf(i) ==
    LET r == resolve_timestamp(messages[i].timestamp, asked.tnow)
    IN  IF r.ok THEN r.dt.t ELSE 0 - 1

BucketCount(h) == Cardinality({i \in 1..Len(messages) : BucketOf(i) = h})

Spikes == {temporal.message_spikes[k].hour : k \in 1..Len(temporal.message_spikes)}

\* C11: detect_temporal_anomalies reports a calendar-hour bucket as a spike if
\* and only if the number of messages in the bucket is greater than or equal
\* to the threshold (a bucket of exactly 50 is a spike under threshold 50, a
\* bucket of 49 is not); each bucket is reported once, with its count.
\* Checked under SpecSpikes.
C11_SpikeIffAtThreshold ==
    (temporal.ran /\ ~temporal.raised) =>
        /\ \A i \in 1..Len(messages) :
              BucketOf(i) >= 0 =>
                  (BucketOf(i) \in Spikes <=> BucketCount(BucketOf(i)) >= asked.threshold)
        /\ \A k \in 1..Len(temporal.message_spikes) :
              /\ temporal.message_spikes[k].count = BucketCount(temporal.message_spikes[k].hour)
              /\ temporal.message_spikes[k].count >= asked.threshold
              /\ \A j \in 1..Len(temporal.message_spikes) :
                    temporal.message_spikes[j].hour = temporal.message_spikes[k].hour => j = k

\* Threshold 50: a bucket of exactly 50 messages is reported, next to a bucket
\* of fewer that is not.
C11_Witness ==
    /\ temporal.ran /\ ~temporal.raised /\ asked.threshold = DefaultThreshold
    /\ \E k \in 1..Len(temporal.message_spikes) :
          temporal.message_spikes[k].count = DefaultThreshold
    /\ \E i \in 1..Len(messages) : BucketOf(i) >= 0 /\ BucketOf(i) \notin Spikes

\* ---- the batch as the last call of analyze_contact_patterns read it
\* The datetime of message i (ok = FALSE: the call skipped the message).
ContactTime(i) ==
    IF messages[i].datetime # <<>> THEN [ok |-> TRUE, dt |-> messages[i].datetime[1]]
    ELSE resolve_timestamp(messages[i].timestamp, asked.cnow)

Analysed == {i \in 1..Len(messages) : ContactTime(i).ok}
At(i) == ContactTime(i).dt.t - ContactTime(i).dt.off
DayOf(i) == ContactTime(i).dt.t \div 24
Addressed == {i \in Analysed : messages[i].sender # "" /\ messages[i].recipient # ""}
PairAt(i) == <<messages[i].sender, messages[i].recipient>>
Of(pair) == {i \in Addressed : PairAt(i) = pair}
FirstContact(pair) == CHOOSE t \in {At(i) : i \in Of(pair)} : \A i \in Of(pair) : t <= At(i)
Latest == CHOOSE t \in {At(i) : i \in Analysed} : \A i \in Analysed : At(i) <= t
ReportedNew == {<<contacts.new_contacts[k].sender, contacts.new_contacts[k].recipient>> :
                   k \in 1..Len(contacts.new_contacts)}

\* C12: analyze_contact_patterns reports a (sender, recipient) pair as a new
\* contact if and only if the pair's first-contact time is at or after the
\* latest message time minus the window (first seen exactly at latest - window:
\* reported; any earlier: not), once, with its first-contact time and with the
\* number of all the pair's analysed messages as message_count.  Checked under
\* SpecContacts.
C12_NewContactIffInWindow ==
    (contacts.ran /\ ~contacts.raised) =>
        /\ \A i \in Addressed :
              PairAt(i) \in ReportedNew <=> FirstContact(PairAt(i)) >= Latest - asked.window
        /\ \A k \in 1..Len(contacts.new_contacts) :
              LET c == contacts.new_contacts[k]
                  pair == <<c.sender, c.recipient>>
              IN  /\ Of(pair) # {}
                  /\ c.message_count = Cardinality(Of(pair))
                  /\ c.first_contact_time.t - c.first_contact_time.off = FirstContact(pair)
                  /\ \A j \in 1..Len(contacts.new_contacts) :
                        <<contacts.new_contacts[j].sender,
                          contacts.new_contacts[j].recipient>> = pair => j = k

\* Window 24: a pair first seen exactly 24 hours before the latest message is
\* reported with both its messages, a pair first seen an hour earlier is not.
C12_Witness ==
    /\ contacts.ran /\ ~contacts.raised /\ asked.window = DefaultWindowHours
    /\ \E k \in 1..Len(contacts.new_contacts) :
          /\ contacts.new_contacts[k].first_contact_time.t = Latest - DefaultWindowHours
          /\ contacts.new_contacts[k].message_count >= 2
    /\ \E i \in Addressed :
          PairAt(i) \notin ReportedNew /\ FirstContact(PairAt(i)) = Latest - DefaultWindowHours - 1

\* The days analyze_contact_patterns compares: the two most recent days with
\* a message that has sender and recipient.
ContactDays == {DayOf(i) : i \in Addressed}
Today == CHOOSE d \in ContactDays : \A e \in ContactDays : e <= d
Yesterday == CHOOSE d \in ContactDays \ {Today} : \A e \in ContactDays \ {Today} : e <= d
OnDay(pair, d) == Cardinality({i \in Of(pair) : DayOf(i) = d})
ReportedDrops == {<<contacts.contact_drops[k].sender, contacts.contact_drops[k].recipient>> :
                     k \in 1..Len(contacts.contact_drops)}

\* C13: analyze_contact_patterns reports a pair as a contact drop if and only
\* if its message count on `yesterday` exceeds 3 and it has no message on
\* `today` (3 / 0: no drop; 4 / 0: drop; 4 / 1: no drop); a drop carries
\* yesterday as last_active and yesterday's count as previous_count.  Yesterday
\* and today are the two days the analyser compares (C14 is about which days
\* these are).  Checked under SpecContacts.
C13_DropIffOverThreeThenNone ==
    (contacts.ran /\ ~contacts.raised /\ Cardinality(ContactDays) >= 2) =>
        /\ \A i \in Addressed :
              PairAt(i) \in ReportedDrops
                  <=> (OnDay(PairAt(i), Yesterday) > 3 /\ OnDay(PairAt(i), Today) = 0)
        /\ \A k \in 1..Len(contacts.contact_drops) :
              LET d == contacts.contact_drops[k]
                  pair == <<d.sender, d.recipient>>
              IN  /\ d.last_active = Yesterday
                  /\ d.previous_count = OnDay(pair, Yesterday)
                  /\ d.previous_count > 3
                  /\ \A j \in 1..Len(contacts.contact_drops) :
                        <<contacts.contact_drops[j].sender,
                          contacts.contact_drops[j].recipient>> = pair => j = k

\* Four messages yesterday and none today: reported, with count 4.
C13_Witness ==
    /\ contacts.ran /\ ~contacts.raised /\ Cardinality(ContactDays) >= 2
    /\ Len(contacts.contact_drops) = 1
    /\ contacts.contact_drops[1].previous_count = 4
    /\ contacts.contact_drops[1].last_active = Yesterday
    /\ OnDay(<<"alice", "bob">>, Yesterday) = 4 /\ OnDay(<<"alice", "bob">>, Today) = 0

\* The days C14 names: the two most recent days with any analysed message.
DatasetDays == {DayOf(i) : i \in Analysed}
LastDay == CHOOSE d \in DatasetDays : \A e \in DatasetDays : e <= d
DayBefore == CHOOSE d \in DatasetDays \ {LastDay} : \A e \in DatasetDays \ {LastDay} : e <= d

\* C14: in contact-drop detection `yesterday` and `today` are the two most
\* recent distinct calendar days on which any message of the analysed dataset
\* occurs, whether or not the message carries a sender and a recipient; with
\* fewer than 2 distinct days no drops are reported.  Checked under
\* SpecContacts.
C14_DaysOfTheDataset ==
    (contacts.ran /\ ~contacts.raised /\ Analysed # {}) =>
        IF Cardinality(DatasetDays) < 2 THEN contacts.contact_drops = <<>>
        ELSE /\ \A i \in Addressed :
                   PairAt(i) \in ReportedDrops
                       <=> (OnDay(PairAt(i), DayBefore) > 3 /\ OnDay(PairAt(i), LastDay) = 0)
             /\ \A k \in 1..Len(contacts.contact_drops) :
                   contacts.contact_drops[k].last_active = DayBefore

\* C15: running detect_temporal_anomalies and analyze_contact_patterns again
\* on the unchanged batch, with the same threshold and window, yields the
\* report of the run before, for every batch (batches with unparseable or
\* missing timestamps included).  Checked under SpecAnalysis.
C15_RepeatableReports ==
    [][/\ (temporal.ran /\ asked'.threshold = asked.threshold /\ messages' = messages)
             => temporal' = temporal
       /\ (contacts.ran /\ asked'.window = asked.window /\ messages' = messages)
             => contacts' = contacts]_vars

\* C17: an empty message batch makes detect_temporal_anomalies return empty
\* odd_hour_messages and empty message_spikes, and analyze_contact_patterns
\* return empty new_contacts, empty contact_drops and an empty contact graph;
\* neither raises.  Checked under SpecAnalysis.
C17_EmptyBatchEmptyReports ==
    messages = <<>> =>
        /\ temporal.ran =>
              (~temporal.raised /\ temporal.odd_hour_messages = <<>>
               /\ temporal.message_spikes = <<>>)
        /\ contacts.ran =>
              (~contacts.raised /\ contacts.new_contacts = <<>>
               /\ contacts.contact_drops = <<>> /\ contacts.contact_graph = {})

C17_Witness == messages = <<>> /\ temporal.ran /\ contacts.ran

\* C16: on an empty log (no store yet, or a store with zero entries)
\* verify_chain_integrity() returns success, names no failing entry and gives
\* the reason "Chain is empty".  Checked under SpecTamper.
C16_EmptyLogVerifies ==
    (verdict.ran /\ (~db_exists \/ custody_log = <<>>)) =>
        /\ ~verdict.raised /\ verdict.valid
        /\ verdict.at = 0
        /\ verdict.reason = "Chain is empty"

\* The store exists and its only entry was deleted; verification ran.
C16_Witness ==
    /\ db_exists /\ custody_log = <<>> /\ tamper.kind = "delete"
    /\ verdict.ran /\ verdict.valid

\* Items of a mapping, whatever order they were inserted in.
ItemsOf(toks) == {<<toks[2 * k - 1], toks[2 * k]>> : k \in 1..(Len(toks) \div 2)}
SameValue(x, y) ==
    IF x.ty = "dict" /\ y.ty = "dict" THEN ItemsOf(x.v) = ItemsOf(y.v) ELSE x = y
HashedFields == {"timestamp", "action", "actor", "source_file", "line_numbers", "query",
                 "results_count", "confidence", "details"}
SameContent(a, b) ==
    /\ \A f \in HashedFields : SameValue(a.hashed[f], b.hashed[f])
    /\ a.previous_hash = b.previous_hash

\* C18: the digest and the signature of an entry are functions of the entry
\* content and the key alone: entries with equal field values have the same
\* digest and, under the same key, the same signature, in whatever order the
\* keys of the details mapping were inserted; entries that differ in a hashed
\* field have different digests and signatures, and so have signatures under
\* different keys.  Checked under SpecDigest.
C18_DigestOfContent ==
    \A i, j \in 1..Len(custody_log) :
        LET a == custody_log[i]
            b == custody_log[j]
        IN  IF SameContent(a, b)
            THEN /\ a.hash_value = b.hash_value
                 /\ (a.signature = b.signature) <=> (a.key_given = b.key_given)
            ELSE a.hash_value # b.hash_value /\ a.signature # b.signature

\* Two stored entries of equal content whose details were built in different
\* orders, next to an entry that differs in one value of details.
C18_Witness ==
    \E i, j, k \in 1..Len(custody_log) :
        /\ SameContent(custody_log[i], custody_log[j])
        /\ custody_log[i].hashed.details # custody_log[j].hashed.details
        /\ custody_log[i].hash_value = custody_log[j].hash_value
        /\ ~SameContent(custody_log[k], custody_log[i])
        /\ custody_log[k].hash_value # custody_log[i].hash_value

\* C19: if the durable store cannot be written during an append, log_action
\* fails with an error to its caller (it returns no entry hash) and the stored
\* entries and the latest hash are what they were; a call that returns a
\* hash returns the hash of the entry it stored.  Checked under SpecStore.
C19_FailedAppendStoresNothing ==
    [][\A p \in Procs :
          (pc[p] = "insert" /\ pc'[p] = "idle") =>
              IF returned'[p].ty = "raise"
              THEN /\ custody_log' = custody_log
                   /\ seq' = seq
                   /\ get_last_hash(custody_log') = get_last_hash(custody_log)
              ELSE /\ Len(custody_log') = Len(custody_log) + 1
                   /\ returned'[p] = custody_log'[Len(custody_log')].hash_value]_vars

\* A write failed on a log that holds entries: the caller got the error.
C19_Witness ==
    /\ Len(custody_log) >= 1 /\ pc[1] = "idle"
    /\ returned[1].ty = "raise"

\* The stored entry with the highest sequence number.
Newest == CHOOSE i \in 1..Len(custody_log) :
              \A j \in 1..Len(custody_log) : custody_log[j].id <= custody_log[i].id

\* C20: get_custody_log(limit) returns at most limit entries, those with the
\* highest sequence numbers, most recent first (strictly descending sequence
\* number); get_last_hash() returns the hash of the entry with the highest
\* sequence number, or None when the log has no entries.  Checked under
\* SpecStore, for limits from 0 on.
C20_LatestFirst ==
    /\ (fetched.ran /\ ~fetched.raised) =>
          /\ Len(fetched.rows) <= fetched.limit
          /\ Len(fetched.rows) <= Len(custody_log)
          /\ Len(fetched.rows) < fetched.limit => Len(fetched.rows) = Len(custody_log)
          /\ \A k \in 1..(Len(fetched.rows) - 1) : fetched.rows[k].id > fetched.rows[k + 1].id
          /\ \A k \in 1..Len(fetched.rows) :
                /\ \E i \in 1..Len(custody_log) :
                      /\ custody_log[i].id = fetched.rows[k].id
                      /\ custody_log[i].hash_value = fetched.rows[k].hash_value
                /\ \A i \in 1..Len(custody_log) :
                      custody_log[i].id > fetched.rows[k].id
                          => \E j \in 1..(k - 1) : fetched.rows[j].id = custody_log[i].id
    /\ \A p \in Procs :
          pc[p] = "insert" =>
              frame[p].previous_hash =
                  IF custody_log = <<>> THEN None ELSE custody_log[Newest].hash_value

\* Three entries stored, two asked for: the two newest came back, newest first.
C20_Witness ==
    /\ Len(custody_log) = 3 /\ fetched.ran /\ fetched.limit = 2
    /\ Len(fetched.rows) = 2
    /\ fetched.rows[1].id = custody_log[3].id /\ fetched.rows[2].id = custody_log[2].id

\* C21: analyze_contact_patterns builds the contact graph so that every
\* (sender, recipient) pair of an analysed message that has both is an edge
\* whose count is the number of analysed messages with exactly that sender and
\* recipient, the first-contact time recorded for a pair is the earliest
\* timestamp among those messages, and a message without sender or without
\* recipient contributes to no edge.  Checked under SpecContacts.
C21_GraphCountsPairs ==
    (contacts.ran /\ ~contacts.raised) =>
        /\ contacts.contact_graph =
              {[sender |-> PairAt(i)[1], recipient |-> PairAt(i)[2],
                count |-> Cardinality(Of(PairAt(i)))] : i \in Addressed}
        /\ \A e \in contacts.contact_graph : e.sender # "" /\ e.recipient # "" /\ e.count >= 1
        /\ \A k \in 1..Len(contacts.new_contacts) :
              \A i \in Of(<<contacts.new_contacts[k].sender,
                             contacts.new_contacts[k].recipient>>) :
                  contacts.new_contacts[k].first_contact_time.t
                      - contacts.new_contacts[k].first_contact_time.off <= At(i)

\* Two messages of one pair and a message without recipient: one edge, of
\* count 2.
C21_Witness ==
    /\ contacts.ran /\ ~contacts.raised
    /\ contacts.contact_graph = {[sender |-> "alice", recipient |-> "bob", count |-> 2]}
    /\ \E i \in 1..Len(messages) : messages[i].recipient = ""

\* ---- the batch as the last call of detect_temporal_anomalies read it
TemporalTime(i) == resolve_timestamp(messages[i].timestamp, asked.tnow)
InBucket(h) == {i \in 1..Len(messages) : BucketOf(i) = h}
Moment(i) == TemporalTime(i).dt.t - TemporalTime(i).dt.off
\* Place of message i among the messages of its bucket, by time and, for
\* equal times, by place in the batch.
PlaceInBucket(i) ==
    1 + Cardinality({j \in InBucket(BucketOf(i)) :
                        Moment(j) < Moment(i) \/ (Moment(j) = Moment(i) /\ j < i)})

\* C22: every spike reported by detect_temporal_anomalies carries its bucket
\* key, a count equal to the number of all messages of the bucket, and a
\* sample that is exactly the first min(5, count) messages of the bucket in
\* chronological order.  Checked under SpecSpikes.
C22_SpikeSampleIsPrefix ==
    (temporal.ran /\ ~temporal.raised) =>
        \A k \in 1..Len(temporal.message_spikes) :
            LET spike == temporal.message_spikes[k]
                size == IF spike.count < 5 THEN spike.count ELSE 5
            IN  /\ InBucket(spike.hour) # {}
                /\ spike.count = Cardinality(InBucket(spike.hour))
                /\ Len(spike.messages) = size
                /\ \A r \in 1..size :
                      \E i \in InBucket(spike.hour) :
                          /\ PlaceInBucket(i) = r
                          /\ spike.messages[r] =
                                [messages[i] EXCEPT !.datetime = <<TemporalTime(i).dt>>]

\* A bucket of more than five messages whose latest message came first in the
\* batch: the sample is five messages, none of them that one.
C22_Witness ==
    /\ temporal.ran /\ ~temporal.raised
    /\ \E k \in 1..Len(temporal.message_spikes) :
          /\ temporal.message_spikes[k].count > 5
          /\ Len(temporal.message_spikes[k].messages) = 5
          /\ BucketOf(1) = temporal.message_spikes[k].hour
          /\ \A r \in 1..5 : temporal.message_spikes[k].messages[r].recipient # messages[1].recipient

\* C23: for every batch, whatever mix of timestamp representations its
\* messages carry (ISO strings with or without offset, numeric epoch values,
\* unparseable or missing values), detect_temporal_anomalies and
\* analyze_contact_patterns return a report and do not raise.  Checked under
\* SpecAnalysis.
C23_AnalysersNeverRaise ==
    /\ temporal.ran => ~temporal.raised
    /\ contacts.ran => ~contacts.raised

\* C24: verify_chain_integrity() confirms that the stored previous_hash of
\* the first (oldest) entry is empty: a log whose first entry carries a
\* non-empty previous_hash is reported as invalid at that entry.  Checked
\* under SpecTamper.
C24_FirstEntryHasNoPredecessor ==
    (verdict.ran /\ custody_log # <<>> /\ Truthy(custody_log[1].previous_hash)) =>
        (~verdict.raised /\ ~verdict.valid /\ verdict.at = custody_log[1].id)

\* C25: stored entries are immutable and sequence numbers strictly increase:
\* every operation on the log (log_action with its get_last_hash, a failed
\* log_action, get_custody_log, verify_chain_integrity) leaves every stored
\* entry as it was and deletes none, and an append stores exactly one new
\* entry whose id is greater than the id of every entry already stored.
\* Checked under SpecOps.
StoredBefore == \A i \in 1..Len(custody_log) : custody_log'[i] = custody_log[i]

OneNewEntry ==
    /\ Len(custody_log') = Len(custody_log) + 1
    /\ \A i \in 1..Len(custody_log) : custody_log'[Len(custody_log')].id > custody_log[i].id

C25_EntriesKeptIdsGrow ==
    [][/\ Len(custody_log') >= Len(custody_log)
       /\ StoredBefore
       /\ custody_log' # custody_log => OneNewEntry]_vars

C25_Witness ==
    /\ Len(custody_log) = MaxEntries
    /\ \A i \in 1..(MaxEntries - 1) : custody_log[i].id < custody_log[i + 1].id
    /\ verdict.ran
    /\ fetched.ran
    /\ clock > seq

\* C26: integrity failures are never swallowed: every verify_chain_integrity
\* entry point the code exports reports failure on a log that contains a
\* previous-hash, a hash or a signature mismatch, and none returns success
\* for it.  The mismatch is the one an edit of previous_hash, hash_value or
\* signature puts into a log that verified before.  Checked under
\* SpecExported.
ChainColumns == {"previous_hash", "hash_value", "signature"}

C26_MismatchNeverPasses ==
    (verdict.ran /\ tamper.kind = "mutate" /\ tamper.clean /\ tamper.col \in ChainColumns)
        => (~verdict.raised /\ ~verdict.valid)

\* C27: the analysers are free of side effects: a call of
\* detect_temporal_anomalies or analyze_contact_patterns leaves the batch it
\* was given as it was (the same messages in the same order, no field added
\* or altered), leaves the integrity log as it was and leaves the other
\* analyser's result alone; an append to the log leaves the batch and both
\* results alone.  Checked under SpecPure.
AnalyserStep == asked' # asked \/ temporal' # temporal \/ contacts' # contacts

C27_AnalysersTouchNothing ==
    [][/\ messages' = messages
       /\ AnalyserStep => logVars' = logVars
       /\ temporal' # temporal => contacts' = contacts
       /\ contacts' # contacts => temporal' = temporal
       /\ logVars' # logVars => ~AnalyserStep]_vars

C27_Witness ==
    /\ Len(messages) = MaxPure
    /\ \A i \in 1..Len(messages) : messages[i].datetime = <<>>
    /\ temporal.ran /\ ~temporal.raised
    /\ contacts.ran /\ ~contacts.raised
    /\ Len(custody_log) >= 2

\* C28: a fork made by racing appends is always detected: when two log_action
\* calls read the same latest hash (both None on an empty log included) and
\* both insert, every later verify_chain_integrity() reports failure with a
\* previous-hash mismatch at the entry inserted second.  Two stored entries
\* with the same previous_hash are such a pair; the first pair of the log is
\* the one a verifier meets.  Checked under Spec.
InsertedSecond ==
    {j \in 1..Len(custody_log) :
        \E i \in 1..(j - 1) : custody_log[i].previous_hash = custody_log[j].previous_hash}

FirstFork == CHOOSE j \in InsertedSecond : \A k \in InsertedSecond : j <= k

C28_ForkDetectedAtSecond ==
    (verdict.ran /\ InsertedSecond # {}) =>
        /\ ~verdict.raised /\ ~verdict.valid
        /\ verdict.reason = "Previous hash mismatch"
        /\ verdict.at = custody_log[FirstFork].id

\* C29: the hashed fields survive storage: for every append, the values
\* verify_chain_integrity rebuilds from the stored row (timestamp, action,
\* actor, source_file, line_numbers, query, results_count, confidence,
\* details) equal the values log_action hashed and signed, for every accepted
\* input, a list- or dict-valued line_numbers and an empty details mapping
\* included.  Checked under SpecSeq.
C29_StoredFieldsRoundTrip ==
    \A i \in 1..Len(custody_log) :
        /\ entry_data_from(custody_log[i]).ok
        /\ \A f \in HashedFields :
               SameValue(entry_data_from(custody_log[i]).val[f], custody_log[i].hashed[f])

\* C30: a contact report is consistent: in every result of
\* analyze_contact_patterns each pair listed in new_contacts or in
\* contact_drops is an edge of contact_graph, a new contact's message_count
\* is that edge's count, a drop's previous_count is at most that edge's
\* count, and the counts of all edges add up to the number of analysed
\* messages that have a sender and a recipient.  Checked under SpecContacts.
EdgesOf(sender, recipient) ==
    {e \in contacts.contact_graph : e.sender = sender /\ e.recipient = recipient}

RECURSIVE SumOfCounts(_)
SumOfCounts(edges) ==
    IF edges = {} THEN 0
    ELSE LET e == CHOOSE x \in edges : TRUE
         IN  e.count + SumOfCounts(edges \ {e})

C30_ReportConsistent ==
    (contacts.ran /\ ~contacts.raised) =>
        /\ \A k \in 1..Len(contacts.new_contacts) :
              LET n == contacts.new_contacts[k]
              IN  /\ Cardinality(EdgesOf(n.sender, n.recipient)) = 1
                  /\ \A e \in EdgesOf(n.sender, n.recipient) : n.message_count = e.count
        /\ \A k \in 1..Len(contacts.contact_drops) :
              LET d == contacts.contact_drops[k]
              IN  /\ Cardinality(EdgesOf(d.sender, d.recipient)) = 1
                  /\ \A e \in EdgesOf(d.sender, d.recipient) : d.previous_count <= e.count
        /\ SumOfCounts(contacts.contact_graph) = Cardinality(Addressed)

\* A report with a new contact, a drop and two edges.
C30_Witness ==
    /\ contacts.ran /\ ~contacts.raised
    /\ Len(contacts.new_contacts) >= 1
    /\ Len(contacts.contact_drops) = 1
    /\ Cardinality(contacts.contact_graph) = 2
    /\ Cardinality(Addressed) = MaxContactMsgs

====
